---- MODULE Spec2Model ----
(***************************************************************************)
(* Model of the Calculator class of src/main.cpp: the validator            *)
(* (validateExpression), the flat reducer (evaluateSubExpression), the     *)
(* bracket-resolution driver (evaluate) and the number formatting          *)
(* (formatNumber).                                                         *)
(*                                                                         *)
(* A std::string is a sequence of one-character strings.  A double is a    *)
(* record [n, d, x]: the rational n/d in lowest terms (d > 0) and the flag *)
(* x, TRUE when the double holds exactly n/d (n/d is dyadic and was        *)
(* computed from exact operands) and FALSE when the double is only the     *)
(* nearest approximation of n/d.  Arithmetic whose outcome the rationals   *)
(* cannot decide (magnitude beyond MaxMagnitude, inf, a non-integer        *)
(* exponent, a rounding tie or a zero test on an approximate value) ends   *)
(* the modelled call in pc = "beyond".                                     *)
(***************************************************************************)
EXTENDS Integers, Sequences, FiniteSets, TLC

(***************************************************************************)
(* Bounds of the model.                                                    *)
(***************************************************************************)
MaxOps == 2
MaxZeroLen == 5
MaxBracketLen == 5
MaxDotLen == 6
MaxMagnitude == 10000

(***************************************************************************)
(* Characters.                                                             *)
(***************************************************************************)
DigitChars == <<"0", "1", "2", "3", "4", "5", "6", "7", "8", "9">>

Digits == {DigitChars[k] : k \in 1..10}

Operators == {"+", "-", "*", "/", "^"}

Openers == {"(", "{"}

Closers == {")", "}"}

Whitespace == {" "}

isdigit(c) == c \in Digits

DigitVal(c) == CHOOSE k \in 0..9 : DigitChars[k + 1] = c

\* isOperator, main.cpp:36-38
isOperator(c) == c = "+" \/ c = "-" \/ c = "*" \/ c = "/" \/ c = "^"

\* getPrecedence, main.cpp:40-45
getPrecedence(op) ==
    IF op = "^" THEN 3
    ELSE IF op = "*" \/ op = "/" THEN 2
    ELSE IF op = "+" \/ op = "-" THEN 1
    ELSE 0

\* a variant of isMatchingPair that lets either closer close either opener
isMatchingPairAnyKind(opening, closing) ==
    opening \in Openers /\ closing \in Closers

\* isMatchingPair, main.cpp:124-127
isMatchingPair(opening, closing) ==
    (opening = "(" /\ closing = ")") \/ (opening = "{" /\ closing = "}")

(***************************************************************************)
(* std::string searches, 1-based; 0 stands for std::string::npos.          *)
(***************************************************************************)
\* a variant of find_last_of that finds the leftmost hit
find_leftmost_of(s, set) ==
    LET hits == {k \in 1..Len(s) : s[k] \in set}
    IN IF hits = {} THEN 0 ELSE CHOOSE k \in hits : \A j \in hits : k <= j

find_last_of(s, set) ==
    LET hits == {k \in 1..Len(s) : s[k] \in set}
    IN IF hits = {} THEN 0 ELSE CHOOSE k \in hits : \A j \in hits : j <= k

find_first_of(s, set, from) ==
    LET hits == {k \in from..Len(s) : s[k] \in set}
    IN IF hits = {} THEN 0 ELSE CHOOSE k \in hits : \A j \in hits : k <= j

\* std::regex_search(currentExpr, OPERATOR_PATTERN), main.cpp:14,190
HasOperator(s) == \E k \in 1..Len(s) : isOperator(s[k])

\* a variant of replaceInExpression that replaces one character less
replaceShortOfOne(expr, start, length, replacement) ==
    SubSeq(expr, 1, start - 1) \o replacement \o SubSeq(expr, start + length - 1, Len(expr))

\* replaceInExpression, main.cpp:23-27 (start 1-based)
replaceInExpression(expr, start, length, replacement) ==
    SubSeq(expr, 1, start - 1) \o replacement \o SubSeq(expr, start + length, Len(expr))

\* addStep, main.cpp:29-34
addStep(st, step) ==
    IF st = <<>> \/ st[Len(st)] # step THEN Append(st, step) ELSE st

(***************************************************************************)
(* VALID_EXPRESSION, main.cpp:17-19:                                       *)
(*   ^[\s]*([(){}]|\d+(\.\d+)?|[+\-*/^])+[\s]*$                            *)
(* matched against the whole string (std::regex_match).                    *)
(***************************************************************************)
\* \d+(\.\d+)?
IsNumberLiteral(t) ==
    /\ Len(t) >= 1
    /\ \/ \A k \in 1..Len(t) : isdigit(t[k])
       \/ \E p \in 2..(Len(t) - 1) :
             /\ t[p] = "."
             /\ \A k \in 1..Len(t) : k # p => isdigit(t[k])

\* one alternative of the group matches s[i .. i+L-1]
TokenAt(s, i, L) ==
    \/ L = 1 /\ s[i] \in (Openers \cup Closers \cup Operators)
    \/ IsNumberLiteral(SubSeq(s, i, i + L - 1))

\* (...)* matches s[i .. e], by backtracking over the token lengths
RECURSIVE Tokenizes(_, _, _)
Tokenizes(s, i, e) ==
    \/ i > e
    \/ \E L \in 1..(e - i + 1) : TokenAt(s, i, L) /\ Tokenizes(s, i + L, e)

RECURSIVE LeadingSpaces(_, _)
LeadingSpaces(s, k) ==
    IF k <= Len(s) /\ s[k] \in Whitespace THEN LeadingSpaces(s, k + 1) ELSE k - 1

RECURSIVE TrailingSpaces(_, _)
TrailingSpaces(s, k) ==
    IF k >= 1 /\ s[k] \in Whitespace THEN TrailingSpaces(s, k - 1) ELSE Len(s) - k

RegexMatch(s) ==
    LET lead == LeadingSpaces(s, 1)
        trail == TrailingSpaces(s, Len(s))
    IN /\ lead + 1 <= Len(s) - trail
       /\ Tokenizes(s, lead + 1, Len(s) - trail)

(***************************************************************************)
(* validateExpression, main.cpp:156-175.  The result is the message of the *)
(* exception thrown, or "" when the function returns.                      *)
(***************************************************************************)
NoError == ""

InvalidFormat == "Invalid expression format"

MismatchedBrackets == "Mismatched brackets"

UnclosedBrackets == "Unclosed brackets"

MismatchedParentheses == "Mismatched parentheses"

DivisionByZero == "Division by zero"

InvalidOperator == "Invalid operator"

StodInvalid == "stod"

\* the loop of main.cpp:161-174; brackets is the stack, top last
RECURSIVE ScanBrackets(_, _, _)
ScanBrackets(expression, k, brackets) ==
    IF k > Len(expression)
    THEN IF brackets # <<>> THEN UnclosedBrackets ELSE NoError
    ELSE LET c == expression[k]
         IN IF c = "(" \/ c = "{"
            THEN ScanBrackets(expression, k + 1, Append(brackets, c))
            ELSE IF c = ")" \/ c = "}"
            THEN IF brackets = <<>> \/ ~isMatchingPair(brackets[Len(brackets)], c)
                 THEN MismatchedBrackets
                 ELSE ScanBrackets(expression, k + 1, SubSeq(brackets, 1, Len(brackets) - 1))
            ELSE ScanBrackets(expression, k + 1, brackets)

validateExpression(expression) ==
    IF ~RegexMatch(expression)
    THEN InvalidFormat
    ELSE ScanBrackets(expression, 1, <<>>)

(***************************************************************************)
(* double values.                                                          *)
(***************************************************************************)
Abs(n) == IF n < 0 THEN -n ELSE n

RECURSIVE GCD(_, _)
GCD(a, b) == IF b = 0 THEN a ELSE GCD(b, a % b)

RECURSIVE IsPow2(_)
IsPow2(d) == d = 1 \/ (d % 2 = 0 /\ IsPow2(d \div 2))

\* n/d in lowest terms, d > 0; exact only if the operands were and n/d is dyadic
Val(n, d, x) ==
    LET g == GCD(Abs(n), d)
    IN [n |-> n \div g, d |-> d \div g, x |-> x /\ IsPow2(d \div g)]

NoValue == [n |-> 0, d |-> 0, x |-> FALSE]

InRange(v) == Abs(v.n) <= MaxMagnitude /\ v.d <= MaxMagnitude

IsZero(v) == v.n = 0 /\ v.x

\* outcomes of a computation: a value, an exception, or beyond the model
Ok(v) == [st |-> "ok", v |-> v, msg |-> NoError]

Throw(msg) == [st |-> "throw", v |-> NoValue, msg |-> msg]

Beyond == [st |-> "beyond", v |-> NoValue, msg |-> NoError]

Wrap(n, d, x) ==
    LET v == Val(n, d, x)
    IN IF InRange(v) THEN Ok(v) ELSE Beyond

\* acc * base^k by repeated multiplication, given up once out of range
RECURSIVE PowAcc(_, _, _, _)
PowAcc(acc, base, k, x) ==
    IF k = 0 THEN Ok([acc EXCEPT !.x = x /\ IsPow2(acc.d)])
    ELSE LET nxt == Val(acc.n * base.n, acc.d * base.d, TRUE)
         IN IF InRange(nxt) THEN PowAcc(nxt, base, k - 1, x) ELSE Beyond

\* std::pow(a, b), main.cpp:119
pow(a, b) ==
    IF b.d # 1 THEN Beyond
    ELSE IF b.n = 0 THEN Ok(Val(1, 1, TRUE))
    ELSE IF a.n = 0 THEN (IF b.n > 0 THEN Ok(Val(0, 1, a.x)) ELSE Beyond)
    ELSE IF a.d = 1 /\ Abs(a.n) = 1
         THEN Ok(Val(IF a.n = -1 /\ b.n % 2 = 1 THEN -1 ELSE 1, 1, a.x /\ b.x))
    ELSE IF b.n > 0 THEN PowAcc(Val(1, 1, TRUE), a, b.n, a.x /\ b.x)
    ELSE PowAcc(Val(1, 1, TRUE),
                Val(IF a.n < 0 THEN -a.d ELSE a.d, Abs(a.n), TRUE),
                -b.n, a.x /\ b.x)

\* a variant of applyOperation without the test of the divisor: IEEE division
\* by zero yields inf or NaN, which the model does not hold
applyOperationUnguarded(a, b, op) ==
    CASE op = "+" -> Wrap(a.n * b.d + b.n * a.d, a.d * b.d, a.x /\ b.x)
      [] op = "-" -> Wrap(a.n * b.d - b.n * a.d, a.d * b.d, a.x /\ b.x)
      [] op = "*" -> Wrap(a.n * b.n, a.d * b.d, a.x /\ b.x)
      [] op = "/" -> IF b.n = 0
                     THEN Beyond
                     ELSE Wrap((IF b.n < 0 THEN -1 ELSE 1) * a.n * b.d,
                               a.d * Abs(b.n), a.x /\ b.x)
      [] op = "^" -> pow(a, b)
      [] OTHER -> Throw(InvalidOperator)

\* applyOperation, main.cpp:111-122
applyOperation(a, b, op) ==
    CASE op = "+" -> Wrap(a.n * b.d + b.n * a.d, a.d * b.d, a.x /\ b.x)
      [] op = "-" -> Wrap(a.n * b.d - b.n * a.d, a.d * b.d, a.x /\ b.x)
      [] op = "*" -> Wrap(a.n * b.n, a.d * b.d, a.x /\ b.x)
      [] op = "/" -> IF b.n = 0
                     THEN (IF b.x THEN Throw(DivisionByZero) ELSE Beyond)
                     ELSE Wrap((IF b.n < 0 THEN -1 ELSE 1) * a.n * b.d,
                               a.d * Abs(b.n), a.x /\ b.x)
      [] op = "^" -> pow(a, b)
      [] OTHER -> Throw(InvalidOperator)

(***************************************************************************)
(* formatNumber, main.cpp:47-60: "%.2f", then the trailing zeros and a     *)
(* trailing '.' are removed.                                               *)
(***************************************************************************)
RECURSIVE DigitsOf(_)
DigitsOf(m) ==
    IF m < 10 THEN <<DigitChars[m + 1]>>
    ELSE Append(DigitsOf(m \div 10), DigitChars[(m % 10) + 1])

\* the hundredths of |v|, rounded to nearest, an exact half to even
Hundredths(v) ==
    LET m == Abs(v.n) * 100
        q == m \div v.d
        r == m % v.d
    IN IF 2 * r > v.d \/ (2 * r = v.d /\ q % 2 = 1) THEN q + 1 ELSE q

\* the rounding is decided by n/d unless n/d is a half the double does not hold
FormatDecided(v) == v.x \/ 2 * ((Abs(v.n) * 100) % v.d) # v.d

\* ss << std::fixed << std::setprecision(2) << num, main.cpp:48-51
Fixed2(v) ==
    LET h == Hundredths(v)
    IN (IF v.n < 0 THEN <<"-">> ELSE <<>>)
       \o DigitsOf(h \div 100)
       \o <<".", DigitChars[((h % 100) \div 10) + 1], DigitChars[(h % 10) + 1]>>

find_last_not_of(s, c) ==
    LET hits == {k \in 1..Len(s) : s[k] # c}
    IN IF hits = {} THEN 0 ELSE CHOOSE k \in hits : \A j \in hits : j <= k

formatNumber(num) ==
    LET str == Fixed2(num)
        cut == SubSeq(str, 1, find_last_not_of(str, "0"))
    IN IF cut[Len(cut)] = "." THEN SubSeq(cut, 1, Len(cut) - 1) ELSE cut

(***************************************************************************)
(* std::stod, main.cpp:74,94,211: leading whitespace, an optional sign,    *)
(* digits with an optional fraction; the rest of the string is ignored.    *)
(***************************************************************************)
\* the last index of the run of digits that starts at k (k - 1 if empty)
RECURSIVE DigitRunEnd(_, _)
DigitRunEnd(s, k) ==
    IF k <= Len(s) /\ isdigit(s[k]) THEN DigitRunEnd(s, k + 1) ELSE k - 1

\* the number the digits of t spell, or -1 once it leaves the modelled range
RECURSIVE NumberOf(_, _, _)
NumberOf(t, k, acc) ==
    IF acc > MaxMagnitude * 1000 THEN -1
    ELSE IF k > Len(t) THEN acc
    ELSE NumberOf(t, k + 1, acc * 10 + DigitVal(t[k]))

RECURSIVE TenPow(_)
TenPow(k) == IF k = 0 THEN 1 ELSE 10 * TenPow(k - 1)

stod(str) ==
    LET p0 == LeadingSpaces(str, 1) + 1
        signed == p0 <= Len(str) /\ str[p0] \in {"+", "-"}
        p == IF signed THEN p0 + 1 ELSE p0
        ie == DigitRunEnd(str, p)
        dot == ie + 1 <= Len(str) /\ str[ie + 1] = "."
        fe == IF dot THEN DigitRunEnd(str, ie + 2) ELSE ie
        int == SubSeq(str, p, ie)
        frac == IF dot THEN SubSeq(str, ie + 2, fe) ELSE <<>>
        num == NumberOf(int \o frac, 1, 0)
    IN IF int = <<>> /\ frac = <<>> THEN Throw(StodInvalid)
       ELSE IF Len(frac) > 6 \/ num = -1 THEN Beyond
       ELSE Wrap(IF signed /\ str[p0] = "-" THEN -num ELSE num, TenPow(Len(frac)), TRUE)

(***************************************************************************)
(* The lines the shell (main.cpp:225-242) hands to evaluate: the flat      *)
(* expressions literal (operator literal)* with at most MaxOps operators,  *)
(* and every string over each of three alphabets, up to the alphabet's     *)
(* length bound.                                                           *)
(***************************************************************************)
FlatLiterals == {<<"2">>, <<"3">>, <<"0", ".", "5">>}

RECURSIVE FlatExpressions(_)
FlatExpressions(k) ==
    IF k = 0 THEN FlatLiterals
    ELSE {e \o <<o>> \o l : e \in FlatExpressions(k - 1), o \in Operators, l \in FlatLiterals}

ZeroAlphabet == {"0", "2", "-", "/", "(", ")"}

BracketAlphabet == {"(", ")", "{", "}", "2"}

DotAlphabet == {"2", ".", "+", " "}

Strings(alphabet, maxLen) == UNION {[1..k -> alphabet] : k \in 0..maxLen}

Inputs ==
    UNION {FlatExpressions(k) : k \in 0..MaxOps}
        \cup Strings(ZeroAlphabet, MaxZeroLen)
        \cup Strings(BracketAlphabet, MaxBracketLen)
        \cup Strings(DotAlphabet, MaxDotLen)

\* a session is followed beyond one call after the calls on these lines
Continued == {<<"2", "-", "3">>, <<"2", "/", "0">>, <<"(", "2">>}

\* what a read of a popped-off stack slot may yield
Garbage == {Val(0, 1, TRUE), Val(7, 2, TRUE)}

(***************************************************************************)
(* State.                                                                  *)
(***************************************************************************)
VARIABLES
    pc,          \* where the shell and evaluate are
    expression,  \* the argument of the current (or last) evaluate call
    steps,       \* Calculator::steps
    currentExpr, \* evaluate's working text
    openPos,     \* evaluate's openPos, 1-based (0: the final, bracket-free pass)
    closePos,    \* evaluate's closePos, 1-based
    subExpr,     \* evaluateSubExpression's subExpr
    i,           \* its loop index, 1-based
    values,      \* its operand stack, top last
    ops,         \* its operator stack, top last
    currentNum,  \* its digit accumulator
    a, b, op,    \* the operands and operator popped for one application
    subResult,   \* the string evaluateSubExpression returned
    result,      \* the double evaluate returned
    error,       \* what() of the exception that left evaluate
    iterations   \* the bracket spans the loop of evaluate has replaced in this call

vars == <<pc, expression, steps, currentExpr, openPos, closePos, subExpr, i,
          values, ops, currentNum, a, b, op, subResult, result, error, iterations>>

Terminal == {"done", "failed", "beyond"}

Top(stack) == stack[Len(stack)]

Pop(stack) == SubSeq(stack, 1, Len(stack) - 1)

\* the locals of evaluateSubExpression, before it is entered and after it is left
NoFrame ==
    /\ subExpr' = <<>>
    /\ i' = 0
    /\ values' = <<>>
    /\ ops' = <<>>
    /\ currentNum' = <<>>
    /\ a' = NoValue
    /\ b' = NoValue
    /\ op' = ""

\* the locals of evaluate
NoCall ==
    /\ currentExpr' = <<>>
    /\ openPos' = 0
    /\ closePos' = 0
    /\ subResult' = <<>>
    /\ NoFrame

Init ==
    /\ pc = "idle"
    /\ expression = <<>>
    /\ steps = <<>>
    /\ currentExpr = <<>>
    /\ openPos = 0
    /\ closePos = 0
    /\ subExpr = <<>>
    /\ i = 0
    /\ values = <<>>
    /\ ops = <<>>
    /\ currentNum = <<>>
    /\ a = NoValue
    /\ b = NoValue
    /\ op = ""
    /\ subResult = <<>>
    /\ result = NoValue
    /\ error = NoError
    /\ iterations = 0

\* an exception leaves evaluate, main.cpp:239-241
Fail(msg) ==
    /\ pc' = "failed"
    /\ error' = msg
    /\ NoCall
    /\ UNCHANGED <<expression, steps, result, iterations>>

(***************************************************************************)
(* evaluate, main.cpp:177-182: the trace is reset, the input is recorded   *)
(* and validated.                                                          *)
(***************************************************************************)
Evaluate(expr) ==
    /\ expression' = expr
    /\ steps' = addStep(<<>>, expr)
    /\ result' = NoValue
    /\ iterations' = 0
    /\ LET thrown == validateExpression(expr)
       IN IF thrown # NoError
          THEN /\ pc' = "failed"
               /\ error' = thrown
               /\ NoCall
          ELSE /\ pc' = "scanning"
               /\ error' = NoError
               /\ currentExpr' = expr
               /\ openPos' = 0
               /\ closePos' = 0
               /\ subResult' = <<>>
               /\ NoFrame

\* the shell reads a line and calls evaluate, main.cpp:225-236
Call ==
    /\ pc = "idle" \/ (pc \in Terminal /\ expression \in Continued)
    /\ \E expr \in Inputs : Evaluate(expr)

\* evaluateSubExpression is entered on expr[start..end], main.cpp:62-66
Enter(start, end) ==
    /\ subExpr' = SubSeq(currentExpr, start, end)
    /\ i' = 1
    /\ values' = <<>>
    /\ ops' = <<>>
    /\ currentNum' = <<>>
    /\ a' = NoValue
    /\ b' = NoValue
    /\ op' = ""
    /\ pc' = "reduce"

(***************************************************************************)
(* The head of the driver loop, main.cpp:185-204.                          *)
(***************************************************************************)
FindInnermost ==
    /\ pc = "scanning"
    /\ LET open == find_last_of(currentExpr, Openers)
           close == find_first_of(currentExpr, Closers, open)
       IN IF open = 0
          THEN IF HasOperator(currentExpr)
               THEN /\ Enter(1, Len(currentExpr))
                    /\ openPos' = 0
                    /\ closePos' = 0
                    /\ UNCHANGED <<expression, steps, currentExpr, subResult, result, error, iterations>>
               ELSE /\ pc' = "finish"
                    /\ UNCHANGED <<expression, steps, currentExpr, openPos, closePos,
                                   subExpr, i, values, ops, currentNum, a, b, op,
                                   subResult, result, error, iterations>>
          ELSE IF close = 0
               THEN Fail(MismatchedParentheses)
               ELSE /\ Enter(open + 1, close - 1)
                    /\ openPos' = open
                    /\ closePos' = close
                    /\ UNCHANGED <<expression, steps, currentExpr, subResult, result, error, iterations>>

(***************************************************************************)
(* evaluateSubExpression, main.cpp:62-109.                                 *)
(***************************************************************************)
\* what pushing the accumulated digits does, main.cpp:73-76 and 93-95
Flushed ==
    IF currentNum = <<>> THEN Ok(NoValue) ELSE stod(currentNum)

ValuesAfterFlush ==
    IF currentNum = <<>> THEN values ELSE Append(values, Flushed.v)

\* one character of the for loop, main.cpp:68-77
ScanChar ==
    /\ pc = "reduce"
    /\ i <= Len(subExpr)
    /\ LET c == subExpr[i]
       IN IF isdigit(c) \/ c = "."
          THEN /\ currentNum' = Append(currentNum, c)
               /\ i' = i + 1
               /\ UNCHANGED <<pc, expression, steps, currentExpr, openPos, closePos,
                              subExpr, values, ops, a, b, op, subResult, result, error, iterations>>
          ELSE /\ Flushed.st # "beyond"
               /\ IF Flushed.st = "throw"
                  THEN Fail(Flushed.msg)
                  ELSE /\ values' = ValuesAfterFlush
                       /\ currentNum' = <<>>
                       /\ IF isOperator(c)
                          THEN pc' = "precedence" /\ i' = i
                          ELSE pc' = "reduce" /\ i' = i + 1
                       /\ UNCHANGED <<expression, steps, currentExpr, openPos, closePos,
                                      subExpr, ops, a, b, op, subResult, result, error, iterations>>

\* the for loop ends, main.cpp:93-95
ScanEnd ==
    /\ pc = "reduce"
    /\ i > Len(subExpr)
    /\ Flushed.st # "beyond"
    /\ IF Flushed.st = "throw"
       THEN Fail(Flushed.msg)
       ELSE /\ values' = ValuesAfterFlush
            /\ currentNum' = <<>>
            /\ pc' = "drain"
            /\ UNCHANGED <<expression, steps, currentExpr, openPos, closePos, subExpr,
                           i, ops, a, b, op, subResult, result, error, iterations>>

\* a variant of MustReduce that pops only operators of higher precedence
MustReduceStrict ==
    \/ pc = "precedence" /\ ops # <<>> /\ getPrecedence(Top(ops)) > getPrecedence(subExpr[i])
    \/ pc = "drain" /\ ops # <<>>

\* the condition of the while loops, main.cpp:78 and 97
MustReduce ==
    \/ pc = "precedence" /\ ops # <<>> /\ getPrecedence(Top(ops)) >= getPrecedence(subExpr[i])
    \/ pc = "drain" /\ ops # <<>>

\* ops.push(c), main.cpp:88
PushOperator ==
    /\ pc = "precedence"
    /\ ~MustReduce
    /\ ops' = Append(ops, subExpr[i])
    /\ i' = i + 1
    /\ pc' = "reduce"
    /\ UNCHANGED <<expression, steps, currentExpr, openPos, closePos, subExpr, values,
                   currentNum, a, b, op, subResult, result, error, iterations>>

\* b, a and op are popped, main.cpp:79-81 and 98-100
PopOperands ==
    /\ MustReduce
    /\ Len(values) >= 2
    /\ b' = Top(values)
    /\ a' = Top(Pop(values))
    /\ op' = Top(ops)
    /\ values' = Pop(Pop(values))
    /\ ops' = Pop(ops)
    /\ pc' = "apply"
    /\ UNCHANGED <<expression, steps, currentExpr, openPos, closePos, subExpr, i,
                   currentNum, subResult, result, error, iterations>>

\* values.top() and values.pop() on an empty std::stack are undefined: the
\* process dies,
PopEmptyCrash ==
    /\ \/ MustReduce /\ Len(values) < 2
       \/ pc = "drain" /\ ops = <<>> /\ values = <<>>
    /\ pc' = "crashed"
    /\ UNCHANGED <<expression, steps, currentExpr, openPos, closePos, subExpr, i, values,
                   ops, currentNum, a, b, op, subResult, result, error, iterations>>

\* or the reads yield whatever the memory holds and the run goes on.
PopEmptyOperands(g1, g2) ==
    /\ MustReduce
    /\ Len(values) < 2
    /\ b' = IF values = <<>> THEN g1 ELSE Top(values)
    /\ a' = g2
    /\ op' = Top(ops)
    /\ values' = <<>>
    /\ ops' = Pop(ops)
    /\ pc' = "apply"
    /\ UNCHANGED <<expression, steps, currentExpr, openPos, closePos, subExpr, i,
                   currentNum, subResult, result, error, iterations>>

Applied == applyOperation(a, b, op)

\* the record of one application, main.cpp:85 and 104
StepOf(x, o, y, r) ==
    formatNumber(x) \o <<" ", o, " ">> \o formatNumber(y) \o <<" ", "=", " ">> \o formatNumber(r)

ApplyDecided ==
    /\ Applied.st # "beyond"
    /\ Applied.st = "ok" => FormatDecided(a) /\ FormatDecided(b) /\ FormatDecided(Applied.v)

\* values.push(applyOperation(a, b, op)); addStep(step), main.cpp:82-86 and 101-105
Apply ==
    /\ pc = "apply"
    /\ ApplyDecided
    /\ IF Applied.st = "throw"
       THEN Fail(Applied.msg)
       ELSE /\ values' = Append(values, Applied.v)
            /\ steps' = addStep(steps, StepOf(a, op, b, Applied.v))
            /\ pc' = IF i > Len(subExpr) THEN "drain" ELSE "precedence"
            /\ UNCHANGED <<expression, currentExpr, openPos, closePos, subExpr, i, ops,
                           currentNum, a, b, op, subResult, result, error, iterations>>

\* evaluateSubExpression returns, main.cpp:108
Returned(top) ==
    /\ subResult' = formatNumber(top)
    /\ pc' = "reduced"
    /\ UNCHANGED <<expression, steps, currentExpr, openPos, closePos, subExpr, i, values,
                   ops, currentNum, a, b, op, result, error, iterations>>

ReturnTop ==
    /\ pc = "drain"
    /\ ops = <<>>
    /\ values # <<>>
    /\ FormatDecided(Top(values))
    /\ Returned(Top(values))

ReturnEmptyTop(g) ==
    /\ pc = "drain"
    /\ ops = <<>>
    /\ values = <<>>
    /\ Returned(g)

(***************************************************************************)
(* The rest of the driver loop, main.cpp:190-212.                          *)
(***************************************************************************)
\* the bracket span is replaced by the result, main.cpp:207-208
Substitute ==
    /\ pc = "reduced"
    /\ openPos # 0
    /\ LET replaced == replaceInExpression(currentExpr, openPos, closePos - openPos + 1,
                                           subResult)
       IN /\ currentExpr' = replaced
          /\ steps' = addStep(steps, replaced)
    /\ pc' = "scanning"
    /\ openPos' = 0
    /\ closePos' = 0
    /\ subResult' = <<>>
    /\ NoFrame
    /\ iterations' = iterations + 1
    /\ UNCHANGED <<expression, result, error>>

\* addStep(result); break, main.cpp:191-194
FinalStep ==
    /\ pc = "reduced"
    /\ openPos = 0
    /\ steps' = addStep(steps, subResult)
    /\ pc' = "finish"
    /\ subResult' = <<>>
    /\ NoFrame
    /\ UNCHANGED <<expression, currentExpr, openPos, closePos, result, error, iterations>>

\* return std::stod(steps.back()), main.cpp:211
Return ==
    /\ pc = "finish"
    /\ LET parsed == stod(Top(steps))
       IN /\ parsed.st # "beyond"
          /\ IF parsed.st = "throw"
             THEN Fail(parsed.msg)
             ELSE /\ result' = parsed.v
                  /\ pc' = "done"
                  /\ NoCall
                  /\ UNCHANGED <<expression, steps, error, iterations>>

\* the arithmetic of the next step is beyond what the model decides
LeaveRange ==
    /\ \/ pc = "reduce" /\ (i <= Len(subExpr) => ~(isdigit(subExpr[i]) \/ subExpr[i] = "."))
                        /\ Flushed.st = "beyond"
       \/ pc = "apply" /\ ~ApplyDecided
       \/ pc = "drain" /\ ops = <<>> /\ values # <<>> /\ ~FormatDecided(Top(values))
       \/ pc = "finish" /\ stod(Top(steps)).st = "beyond"
    /\ pc' = "beyond"
    /\ NoCall
    /\ UNCHANGED <<expression, steps, result, error, iterations>>

Next ==
    \/ Call
    \/ FindInnermost
    \/ ScanChar
    \/ ScanEnd
    \/ PushOperator
    \/ PopOperands
    \/ PopEmptyCrash
    \/ \E g1, g2 \in Garbage : PopEmptyOperands(g1, g2)
    \/ Apply
    \/ ReturnTop
    \/ \E g \in Garbage : ReturnEmptyTop(g)
    \/ Substitute
    \/ FinalStep
    \/ Return
    \/ LeaveRange

Spec == Init /\ [][Next]_vars

(***************************************************************************)
(* Notions the properties are stated with.                                 *)
(***************************************************************************)
Running == {"scanning", "reduce", "precedence", "apply", "drain", "reduced", "finish"}

InReducer == {"reduce", "precedence", "apply", "drain", "reduced"}

Count(s, set) == Cardinality({k \in 1..Len(s) : s[k] \in set})

\* the closer that belongs to each opener
Partner(c) == IF c = "(" THEN ")" ELSE "}"

BracketsOf(s) == SelectSeq(s, LAMBDA c : c \in Openers \cup Closers)

\* an opener directly followed by its partner is struck out, until none is left
RECURSIVE Cancel(_)
Cancel(t) ==
    LET pairs == {k \in 1..(Len(t) - 1) : t[k] \in Openers /\ t[k + 1] = Partner(t[k])}
    IN IF pairs = {} THEN t
       ELSE LET k == CHOOSE k \in pairs : TRUE
            IN Cancel(SubSeq(t, 1, k - 1) \o SubSeq(t, k + 2, Len(t)))

Unmatched(s) == Cancel(BracketsOf(s))

\* the position at which the nesting depth opened at position o returns to zero
RECURSIVE DepthZeroAfter(_, _, _)
DepthZeroAfter(s, k, depth) ==
    IF k > Len(s) THEN 0
    ELSE IF s[k] \in Openers THEN DepthZeroAfter(s, k + 1, depth + 1)
    ELSE IF s[k] \in Closers
         THEN (IF depth = 1 THEN k ELSE DepthZeroAfter(s, k + 1, depth - 1))
    ELSE DepthZeroAfter(s, k + 1, depth)

MatchOf(s, o) == DepthZeroAfter(s, o + 1, 1)

\* the pieces of s between its operator characters
RECURSIVE Pieces(_, _, _)
Pieces(s, k, piece) ==
    IF k > Len(s) THEN <<piece>>
    ELSE IF s[k] \in Operators THEN <<piece>> \o Pieces(s, k + 1, <<>>)
    ELSE Pieces(s, k + 1, Append(piece, s[k]))

OperatorsOf(s) == SelectSeq(s, LAMBDA c : c \in Operators)

\* literal (operator literal)*
IsFlatForm(s) ==
    \A k \in 1..Len(Pieces(s, 1, <<>>)) : IsNumberLiteral(Pieces(s, 1, <<>>)[k])

\* operand (operator operand)*, an operand being a literal or a resolved group
IsFlatOfOperands(s) ==
    \A k \in 1..Len(Pieces(s, 1, <<>>)) :
        LET piece == Pieces(s, 1, <<>>)[k]
        IN IsNumberLiteral(piece) \/ piece = <<"#">>

\* every operator has a literal or a bracketed group on both sides
RECURSIVE IsWellFormed(_)
IsWellFormed(s) ==
    LET o == find_first_of(s, Closers, 1)
    IN IF o = 0 THEN IsFlatOfOperands(s)
       ELSE \E k \in 1..(o - 1) :
               /\ s[k] \in Openers
               /\ s[o] = Partner(s[k])
               /\ IsFlatOfOperands(SubSeq(s, k + 1, o - 1))
               /\ IsWellFormed(SubSeq(s, 1, k - 1) \o <<"#">> \o SubSeq(s, o + 1, Len(s)))

\* precedence and associativity as stated: ^ above * and / above + and -,
\* operators of one level taken from left to right
LevelOf(o) == IF o = "^" THEN 3 ELSE IF o \in {"*", "/"} THEN 2 ELSE 1

Combine(x, y, o) ==
    IF x.st # "ok" THEN x ELSE IF y.st # "ok" THEN y ELSE applyOperation(x.v, y.v, o)

\* done holds operand, operator, operand, ...; the operators of the level are
\* applied to the operand before them as they come
RECURSIVE FoldLevel(_, _, _, _)
FoldLevel(operands, operators, level, done) ==
    IF operators = <<>> THEN done
    ELSE IF LevelOf(Head(operators)) = level
         THEN FoldLevel(Tail(operands), Tail(operators), level,
                        [done EXCEPT ![Len(done)] = Combine(@, Head(operands), Head(operators))])
         ELSE FoldLevel(Tail(operands), Tail(operators), level,
                        done \o <<Head(operators), Head(operands)>>)

OperandsIn(items) == [k \in 1..((Len(items) + 1) \div 2) |-> items[2 * k - 1]]

OperatorsIn(items) == [k \in 1..(Len(items) \div 2) |-> items[2 * k]]

FoldAll(items, level) ==
    FoldLevel(Tail(OperandsIn(items)), OperatorsIn(items), level, <<Head(OperandsIn(items))>>)

ValueByPrecedence(s) ==
    LET pieces == Pieces(s, 1, <<>>)
        operands == [k \in 1..Len(pieces) |-> stod(pieces[k])]
        operators == OperatorsOf(s)
        level3 == FoldLevel(Tail(operands), operators, 3, <<Head(operands)>>)
    IN FoldAll(FoldAll(level3, 2), 1)[1]

\* -?\d+(\.\d+)?
IsSignedLiteral(t) ==
    IsNumberLiteral(t) \/ (Len(t) >= 2 /\ t[1] = "-" /\ IsNumberLiteral(Tail(t)))

Trimmed(s) == SubSeq(s, LeadingSpaces(s, 1) + 1, Len(s) - TrailingSpaces(s, Len(s)))

\* the maximal runs of non-blank characters
RECURSIVE Chunks(_, _, _)
Chunks(s, k, chunk) ==
    IF k > Len(s) THEN <<chunk>>
    ELSE IF s[k] \in Whitespace THEN <<chunk>> \o Chunks(s, k + 1, <<>>)
    ELSE Chunks(s, k + 1, Append(chunk, s[k]))

\* tokens with whitespace before, after or between them
IsSpacedTokens(s) ==
    LET chunks == Chunks(s, 1, <<>>)
    IN /\ \E k \in 1..Len(chunks) : chunks[k] # <<>>
       /\ \A k \in 1..Len(chunks) : Tokenizes(chunks[k], 1, Len(chunks[k]))

IsNumeric(c) == isdigit(c) \/ c = "."

\* a maximal run of digits and dots with two dots, or with a dot at an end
HasMalformedRun(s) ==
    \E lo \in 1..Len(s) : \E hi \in lo..Len(s) :
        /\ \A k \in lo..hi : IsNumeric(s[k])
        /\ lo = 1 \/ ~IsNumeric(s[lo - 1])
        /\ hi = Len(s) \/ ~IsNumeric(s[hi + 1])
        /\ \/ Count(SubSeq(s, lo, hi), {"."}) > 1
           \/ s[lo] = "."
           \/ s[hi] = "."

(***************************************************************************)
(* C1.  For every string that passes the grammar check, validateExpression *)
(* succeeds exactly when its brackets are properly nested with matching    *)
(* kinds; it fails with "Mismatched brackets" exactly when a closer meets  *)
(* no opener of its kind (a closer survives the cancellation of matched    *)
(* pairs), and with "Unclosed brackets" exactly when no closer does but    *)
(* openers are left over.                                                  *)
(***************************************************************************)
BracketVerdict ==
    (pc \in {"scanning", "failed"} /\ RegexMatch(expression)) =>
        LET left == Unmatched(expression)
        IN /\ error # InvalidFormat
           /\ (error = MismatchedBrackets) <=> (\E k \in 1..Len(left) : left[k] \in Closers)
           /\ (error = UnclosedBrackets) <=>
                  (left # <<>> /\ \A k \in 1..Len(left) : left[k] \in Openers)
           /\ (error \notin {MismatchedBrackets, UnclosedBrackets}) <=> (left = <<>>)

\* {(2)}, nesting both kinds of brackets, was accepted and evaluated to 2
BracketVerdictWitness ==
    /\ pc = "done"
    /\ expression = <<"{", "(", "2", ")", "}">>
    /\ result = Val(2, 1, TRUE)

(***************************************************************************)
(* C2.  On a bracket-free text literal (operator literal)* the reducer     *)
(* returns the formatted value obtained with ^ above * and / above + and   *)
(* -, operators of equal precedence taken from left to right; it throws    *)
(* only if that evaluation divides by zero.                                *)
(***************************************************************************)
ReducerFollowsPrecedence ==
    /\ (pc = "reduced" /\ IsFlatForm(subExpr)) =>
           /\ ValueByPrecedence(subExpr).st = "ok"
           /\ subResult = formatNumber(ValueByPrecedence(subExpr).v)
    /\ (pc = "failed" /\ IsFlatForm(expression)) =>
           /\ error = DivisionByZero
           /\ ValueByPrecedence(expression).st = "throw"
    /\ (pc = "done" /\ IsFlatForm(expression) /\ HasOperator(expression)) =>
           /\ Top(steps) = formatNumber(ValueByPrecedence(expression).v)
           /\ result = stod(Top(steps)).v

\* 2^3^2 was reduced to 64
ReducerFollowsPrecedenceWitness ==
    /\ pc = "reduced"
    /\ subExpr = <<"2", "^", "3", "^", "2">>
    /\ subResult = <<"6", "4">>

(***************************************************************************)
(* C3.  A sequence of valid tokens with whitespace before, after or        *)
(* between the tokens is not rejected with "Invalid expression format".    *)
(***************************************************************************)
SpacedTokensAccepted ==
    (pc # "idle" /\ IsSpacedTokens(expression)) => error # InvalidFormat

(***************************************************************************)
(* C4.  An input holding a run of digits and dots with more than one dot,  *)
(* or with a dot at an end, is rejected with "Invalid expression format",  *)
(* so the digits the reducer accumulates hold at most one dot.             *)
(***************************************************************************)
MalformedLiteralRejected ==
    /\ (pc # "idle" /\ HasMalformedRun(expression)) => error = InvalidFormat
    /\ Count(currentNum, {"."}) <= 1

(***************************************************************************)
(* C5.  When '/' is applied with a right operand that is exactly zero, the *)
(* call fails with "Division by zero": no value is returned, nothing more  *)
(* is recorded, and the only thing that follows the failure is a new call. *)
(***************************************************************************)
DivisionByZeroAborts ==
    [][/\ (pc = "apply" /\ op = "/" /\ IsZero(b)) =>
              /\ pc' = "failed"
              /\ error' = DivisionByZero
              /\ steps' = steps
              /\ result' = NoValue
       /\ (pc = "failed" /\ error = DivisionByZero) =>
              /\ pc' \in {"scanning", "failed"}
              /\ steps' = <<expression'>>]_vars

\* (2)/0 failed on the division after its bracket had been resolved
DivisionByZeroAbortsWitness ==
    /\ pc = "failed"
    /\ error = DivisionByZero
    /\ expression = <<"(", "2", ")", "/", "0">>
    /\ steps = <<expression, <<"2", "/", "0">>>>
    /\ result = NoValue

(***************************************************************************)
(* C6.  The trace a successful call leaves starts with that call's input,  *)
(* is non-empty, has no two equal adjacent entries, and ends with a        *)
(* numeric literal whose value is the number returned.                     *)
(***************************************************************************)
TraceOfSuccess ==
    pc = "done" =>
        /\ steps # <<>>
        /\ steps[1] = expression
        /\ \A k \in 1..(Len(steps) - 1) : steps[k] # steps[k + 1]
        /\ IsSignedLiteral(Trimmed(Top(steps)))
        /\ stod(Top(steps)).v = result

(***************************************************************************)
(* C7.  Whenever the reducer pops an operator to apply it, the operand     *)
(* stack holds at least two values, and when the reducer finishes exactly  *)
(* one value is on it.                                                     *)
(***************************************************************************)
OperandsAvailable ==
    /\ MustReduce => Len(values) >= 2
    /\ (pc = "drain" /\ ops = <<>>) => Len(values) = 1

(***************************************************************************)
(* C8.  Starting from a validated expression in which every operator has   *)
(* a literal or a bracketed group on both sides, the working text after    *)
(* every bracket substitution is again such an expression, the substituted *)
(* text being an unsigned literal of the grammar.                          *)
(***************************************************************************)
WellFormedPreserved ==
    /\ (pc = "scanning" /\ IsWellFormed(expression)) => IsWellFormed(currentExpr)
    /\ (pc = "reduced" /\ openPos # 0 /\ IsWellFormed(expression)) => IsNumberLiteral(subResult)

(***************************************************************************)
(* C9.  In every pass of the driver loop the closer found from the         *)
(* rightmost opener is that opener's own closer, of the same kind, with no *)
(* bracket between them; "Mismatched parentheses" is never thrown.         *)
(***************************************************************************)
InnermostFirst ==
    /\ (pc \in InReducer /\ openPos # 0) =>
           /\ currentExpr[openPos] \in Openers
           /\ closePos = MatchOf(currentExpr, openPos)
           /\ currentExpr[closePos] = Partner(currentExpr[openPos])
           /\ Count(subExpr, Openers \cup Closers) = 0
           /\ subExpr = SubSeq(currentExpr, openPos + 1, closePos - 1)
    /\ error # MismatchedParentheses

\* the inner pair of {(2)} was reduced first
InnermostFirstWitness ==
    /\ pc = "reduced"
    /\ currentExpr = <<"{", "(", "2", ")", "}">>
    /\ openPos = 2
    /\ closePos = 4
    /\ subResult = <<"2">>

====
